---- MODULE Spec2Model ----
\* gankshell (src/main.rs): the read-dispatch loop of the shell, its alias
\* table, the `source` recursion, the config store and external invocation.
\* Text is modelled as sequences of one-character strings so that trimming,
\* tokenising, joining and splitting are computed as the code computes them.
EXTENDS Integers, Sequences, FiniteSets, TLC

\* --------------------------------------------------------------- bounds
MaxReads == 3      \* lines the line editor hands to the loop in one session
MaxDepth == 4      \* nesting of handle() calls before the stack is exhausted

\* ------------------------------------------------------ text primitives
WS == {" ", "\t", "\n", "\r"}

RECURSIVE TrimStart(_)
TrimStart(s) ==
  IF s = <<>> THEN <<>>
  ELSE IF Head(s) \in WS THEN TrimStart(Tail(s)) ELSE s

RECURSIVE TrimEnd(_)
TrimEnd(s) ==
  IF s = <<>> THEN <<>>
  ELSE IF s[Len(s)] \in WS THEN TrimEnd(SubSeq(s, 1, Len(s) - 1)) ELSE s

\* str::trim
Trim(s) == TrimEnd(TrimStart(s))

\* Length of the longest prefix of s free of whitespace.
RECURSIVE WordLen(_)
WordLen(s) ==
  IF s = <<>> \/ Head(s) \in WS THEN 0 ELSE 1 + WordLen(Tail(s))

\* str::split_whitespace: the maximal whitespace-free runs, in order.
RECURSIVE SplitWhitespace(_)
SplitWhitespace(s) ==
  LET t == TrimStart(s) IN
  IF t = <<>> THEN <<>>
  ELSE LET n == WordLen(t) IN
       <<SubSeq(t, 1, n)>> \o SplitWhitespace(SubSeq(t, n + 1, Len(t)))

\* [&str]::join(" ")
RECURSIVE JoinSpace(_)
JoinSpace(toks) ==
  IF toks = <<>> THEN <<>>
  ELSE IF Len(toks) = 1 THEN toks[1]
  ELSE toks[1] \o <<" ">> \o JoinSpace(Tail(toks))

\* Index of the first occurrence of character c in s, 0 when there is none.
RECURSIVE FindChar(_, _)
FindChar(s, c) ==
  IF s = <<>> THEN 0
  ELSE IF Head(s) = c THEN 1
  ELSE LET r == FindChar(Tail(s), c) IN IF r = 0 THEN 0 ELSE r + 1

\* str::split_once('='): <<>> for None, <<key, value>> for Some((key, value)).
SplitOnceEq(s) ==
  LET i == FindChar(s, "=") IN
  IF i = 0 THEN <<>>
  ELSE <<SubSeq(s, 1, i - 1), SubSeq(s, i + 1, Len(s))>>

\* str::lines: split at "\n", one "\r" before it dropped, no final empty line.
RECURSIVE Lines(_)
Lines(s) ==
  IF s = <<>> THEN <<>>
  ELSE LET i == FindChar(s, "\n") IN
       IF i = 0 THEN <<s>>
       ELSE LET l == SubSeq(s, 1, i - 1)
                c == IF l # <<>> /\ l[Len(l)] = "\r"
                       THEN SubSeq(l, 1, Len(l) - 1) ELSE l
            IN <<c>> \o Lines(SubSeq(s, i + 1, Len(s)))

\* --------------------------------------------------------- command words
W_exit   == <<"e","x","i","t">>
W_alias  == <<"a","l","i","a","s">>
W_env    == <<"e","n","v">>
W_cd     == <<"c","d">>
W_source == <<"s","o","u","r","c","e">>
Builtins == {W_exit, W_alias, W_env, W_cd, W_source}

\* ------------------------------------------------- the shell's environment
\* Lines the line editor can return (Ok(line) of Editor::readline).
\* 'alias gs=git status'
L_aliasGs == <<"a","l","i","a","s"," ","g","s","=","g","i","t"," ","s","t","a","t","u","s">>
\* 'gs a b'
L_gsAB == <<"g","s"," ","a"," ","b">>
\* 'gs'
L_gs == <<"g","s">>
\* 'g'
L_g == <<"g">>
\* '  ls   x '
L_lsX == <<" "," ","l","s"," "," "," ","x"," ">>
\* 'alias k = v'
L_aliasKspV == <<"a","l","i","a","s"," ","k"," ","="," ","v">>
\* 'alias k=v'
L_aliasKV == <<"a","l","i","a","s"," ","k","=","v">>
\* 'alias k=w'
L_aliasKW == <<"a","l","i","a","s"," ","k","=","w">>
\* 'k x'
L_kX == <<"k"," ","x">>
\* 'kk x'
L_kkX == <<"k","k"," ","x">>
\* 'alias a=b=c'
L_aliasAeq == <<"a","l","i","a","s"," ","a","=","b","=","c">>
\* 'alias'
L_alias == <<"a","l","i","a","s">>
\* 'alias gs ls'
L_aliasNoEq == <<"a","l","i","a","s"," ","g","s"," ","l","s">>
\* 'cd'
L_cd == <<"c","d">>
\* 'cd /h'
L_cdH == <<"c","d"," ","/","h">>
\* 'cd ~'
L_cdTilde == <<"c","d"," ","~">>
\* 'cd ~/~'
L_cdTildeTilde == <<"c","d"," ","~","/","~">>
\* 'cd /no'
L_cdNo == <<"c","d"," ","/","n","o">>
\* 'source /f'
L_sourceF == <<"s","o","u","r","c","e"," ","/","f">>
\* 'source /g'
L_sourceG == <<"s","o","u","r","c","e"," ","/","g">>
\* 'source /r'
L_sourceR == <<"s","o","u","r","c","e"," ","/","r">>
\* 'source /x'
L_sourceX == <<"s","o","u","r","c","e"," ","/","x">>
\* 'source /no'
L_sourceNo == <<"s","o","u","r","c","e"," ","/","n","o">>
\* 'source'
L_source == <<"s","o","u","r","c","e">>
\* 'env'
L_env == <<"e","n","v">>
\* 'exit'
L_exit == <<"e","x","i","t">>
\* '  '
L_blank == <<" "," ">>
\* 'source /p'
L_sourceP == <<"s","o","u","r","c","e"," ","/","p">>
\* 'source /q'
L_sourceQ == <<"s","o","u","r","c","e"," ","/","q">>
\* 'source /y'
L_sourceY == <<"s","o","u","r","c","e"," ","/","y">>
\* 'a'
L_a == <<"a">>
Inputs ==
  {L_sourceY, L_cdTildeTilde, L_aliasGs, L_gsAB, L_gs, L_g, L_lsX, L_aliasKspV,
   L_aliasKV, L_aliasKW, L_kX, L_kkX, L_aliasAeq, L_alias,
   L_aliasNoEq, L_cd, L_cdH, L_cdTilde, L_cdNo, L_sourceF,
   L_sourceG, L_sourceR, L_sourceX, L_sourceNo, L_source, L_env,
   L_exit, L_blank}

\* Readable files of the file system, by absolute path.
\* 'alias k=v\n\nk x\ncd /h\nk y\n'
F_f ==
  <<"a","l","i","a","s"," ","k","=","v","\n","\n","k"," ","x","\n","c","d"," ","/","h",
    "\n","k"," ","y","\n">>
\* 'source /f\nalias k=w\nkk z\nk z'
F_g ==
  <<"s","o","u","r","c","e"," ","/","f","\n","a","l","i","a","s"," ","k","=","w","\n",
    "k","k"," ","z","\n","k"," ","z">>
\* 'env\nsource /r\nenv\n'
F_r == <<"e","n","v","\n","s","o","u","r","c","e"," ","/","r","\n","e","n","v","\n">>
\* 'alias k=v\nexit\nk x\n'
F_x == <<"a","l","i","a","s"," ","k","=","v","\n","e","x","i","t","\n","k"," ","x","\n">>
\* 'alias cd=ls\nalias exit=ls\nalias env=ls\nalias alias=ls\n
\*  alias source=ls\n\ncd /h\nenv\nsource /no\nalias z=y\n'
F_p ==
  <<"a","l","i","a","s"," ","c","d","=","l","s","\n","a","l","i","a","s",
    " ","e","x","i","t","=","l","s","\n","a","l","i","a","s"," ","e","n",
    "v","=","l","s","\n","a","l","i","a","s"," ","a","l","i","a","s","=",
    "l","s","\n","a","l","i","a","s"," ","s","o","u","r","c","e","=","l",
    "s","\n","\n","c","d"," ","/","h","\n","e","n","v","\n","s","o","u","r",
    "c","e"," ","/","n","o","\n","a","l","i","a","s"," ","z","=","y","\n">>
\* 'alias a=b\nalias b=c\na\nalias q=cd\nq /h\nalias e=exit\ne\n'
F_q ==
  <<"a","l","i","a","s"," ","a","=","b","\n","a","l","i","a","s"," ","b",
    "=","c","\n","a","\n","a","l","i","a","s"," ","q","=","c","d","\n","q",
    " ","/","h","\n","a","l","i","a","s"," ","e","=","e","x","i","t","\n",
    "e","\n">>
\* 'alias j=i\nsource /x\nk y\n'
F_y ==
  <<"a","l","i","a","s"," ","j","=","i","\n","s","o","u","r","c","e"," ",
    "/","x","\n","k"," ","y","\n">>
FS == (<<"/","f">> :> F_f) @@ (<<"/","g">> :> F_g) @@
      (<<"/","r">> :> F_r) @@ (<<"/","x">> :> F_x) @@
      (<<"/","p">> :> F_p) @@ (<<"/","q">> :> F_q) @@ (<<"/","y">> :> F_y)

\* Directories of the file system, by absolute path.
Dirs == {<<"/">>, <<"/","h">>, <<"/","t">>, <<"/","h","/","~">>, <<"/","b">>}

\* Working directory the shell is started in.
Cwd0 == <<"/","t">>

\* Values of the HOME variable: set to /h, or unset.
Homes == {[set |-> TRUE, val |-> <<"/","h">>], [set |-> FALSE, val |-> <<>>]}

\* How the operating system resolves a path against the working directory.
AbsPath(dir, p) ==
  IF p # <<>> /\ Head(p) = "/" THEN p
  ELSE IF dir = <<"/">> THEN dir \o p
  ELSE dir \o <<"/">> \o p

\* ------------------------------------------------------------ Cfg (17-30)
EmptyAl == [x \in {} |-> <<>>]

\* impl Default for Cfg
DefaultCfg == [ps |-> "->", al |-> EmptyAl]

\* What a config file can hold at startup: nothing (no file), text that is not
\* a Cfg, or a serialised Cfg.
Absent  == [kind |-> "absent",  ps |-> "", al |-> EmptyAl]
Garbage == [kind |-> "garbage", ps |-> "", al |-> EmptyAl]
Toml(c) == [kind |-> "toml", ps |-> c.ps, al |-> c.al]
StoredCfg == [ps |-> "$", al |-> (<<"g","s">> :> <<"l","s">>)]
InitialContents == {Absent, Garbage, Toml(StoredCfg)}

\* The directory of cfg_path = format!("{}/.sh_cfg", home), home being $HOME
\* or "./": the latter is resolved against the working directory in force
\* when the file is opened.
CfgDir(h, dir) == IF h.set THEN AbsPath(dir, h.val) ELSE dir

\* Sh::new: the configuration read from the file at cfg_path, the default when
\* the file is absent or does not parse.
LoadCfg(c) == IF c.kind = "toml" THEN [ps |-> c.ps, al |-> c.al] ELSE DefaultCfg

\* Sh::save, were the default configuration written instead of self.cfg.
SavedStore_Default(st, h, dir, c) ==
  [st EXCEPT ![CfgDir(h, dir)] = Toml(DefaultCfg)]

\* Sh::save when fs::write succeeds: the file at cfg_path holds self.cfg.
SavedStore(st, h, dir, c) == [st EXCEPT ![CfgDir(h, dir)] = Toml(c)]

\* ExpandPath, were every `~` of the path replaced.
RECURSIVE ReplaceTildes(_, _)
ReplaceTildes(path, by) ==
  IF path = <<>> THEN <<>>
  ELSE (IF Head(path) = "~" THEN by ELSE <<Head(path)>>)
       \o ReplaceTildes(Tail(path), by)
ExpandPath_All(h, path) ==
  IF path # <<>> /\ Head(path) = "~" /\ h.set
    THEN ReplaceTildes(path, h.val) ELSE path

\* Sh::expand_path
ExpandPath(h, path) ==
  IF path # <<>> /\ Head(path) = "~" /\ h.set
    THEN LET i == FindChar(path, "~") IN
         SubSeq(path, 1, i - 1) \o h.val \o SubSeq(path, i + 1, Len(path))
    ELSE path

\* Insert, were an existing key left with its first value.
Insert_KeepFirst(al, k, v) ==
  [x \in (DOMAIN al) \cup {k} |-> IF x \in DOMAIN al THEN al[x] ELSE v]

\* self.cfg.al.insert(k, v)
Insert(al, k, v) == [x \in (DOMAIN al) \cup {k} |-> IF x = k THEN v ELSE al[x]]

\* Resolve, were the stored value looked up in the table again.
Resolve_Again(al, cmd) ==
  LET r == IF cmd \in DOMAIN al THEN al[cmd] ELSE cmd IN
  IF r \in DOMAIN al THEN al[r] ELSE r

\* Resolve, were only the first word of the stored value taken as the program.
Resolve_FirstWord(al, cmd) ==
  IF cmd \in DOMAIN al /\ SplitWhitespace(al[cmd]) # <<>>
    THEN SplitWhitespace(al[cmd])[1] ELSE cmd

\* self.cfg.al.get(cmd).cloned().unwrap_or_else(|| cmd.to_string())
Resolve(al, cmd) == IF cmd \in DOMAIN al THEN al[cmd] ELSE cmd

\* A line printed by the shell.
Msg(m, a, b) == [msg |-> m, a |-> a, b |-> b]

\* ------------------------------------------------ Comp::complete (43-87)
\* 'ls', 'cat': the names of the completer's list that are no builtin of
\* handle.
N_ls  == <<"l","s">>
N_cat == <<"c","a","t">>

\* let cmds = vec!["ls", "cd", "exit", "alias", "env", "cat", "source"]
Cmds == <<N_ls, W_cd, W_exit, W_alias, W_env, N_cat, W_source>>

\* What fs::read_dir yields for the directories that can be listed, in the
\* order the file system yields it. /h/~ can be entered but not listed.
Entries ==
  (<<"/">> :> << <<"b">>, <<"h">>, <<"t">>, <<"f">>, <<"g">>, <<"r">>, <<"x">> >>) @@
  (<<"/","b">> :> << <<"l","s">>, <<"e","n","v">>, <<"g","i","t">> >>) @@
  (<<"/","h">> :> << <<"~">>, <<"e","x","i","t">>, <<"E","n","v">> >>) @@
  (<<"/","t">> :> << <<"c","a","t">>, <<"e","d">>, <<"a">> >>)

\* Values of the PATH variable: unset, '/b:/no:/h', '/h:/b:/h', ':/b', '.'.
Paths ==
  {[set |-> FALSE, val |-> <<>>],
   [set |-> TRUE, val |-> <<"/","b",":","/","n","o",":","/","h">>],
   [set |-> TRUE, val |-> <<"/","h",":","/","b",":","/","h">>],
   [set |-> TRUE, val |-> <<":","/","b">>],
   [set |-> TRUE, val |-> <<".">>]}

\* PATH of the shell session.
Path0 == [set |-> TRUE, val |-> <<"/","b",":","/","n","o",":","/","h">>]

\* paths.split(':'): the pieces between the colons, empty ones included.
RECURSIVE SplitColon(_)
SplitColon(s) ==
  LET i == FindChar(s, ":") IN
  IF i = 0 THEN <<s>>
  ELSE <<SubSeq(s, 1, i - 1)>> \o SplitColon(SubSeq(s, i + 1, Len(s)))

\* fs::read_dir(path) with the working directory at dir: <<>> for Err,
\* <<names>> for Ok.
ReadDir(dir, path) ==
  LET abs == IF path = <<".">> THEN dir ELSE AbsPath(dir, path) IN
  IF path # <<>> /\ abs \in DOMAIN Entries THEN <<Entries[abs]>> ELSE <<>>

\* StartsWith, were the case of the letters ignored.
LowerCase(ch) == IF ch = "E" THEN "e" ELSE ch
StartsWith_AnyCase(name, prefix) ==
  /\ Len(prefix) <= Len(name)
  /\ \A i \in 1..Len(prefix) : LowerCase(name[i]) = LowerCase(prefix[i])

\* name.starts_with(prefix)
StartsWith(name, prefix) ==
  /\ Len(prefix) <= Len(name)
  /\ SubSeq(name, 1, Len(prefix)) = prefix

\* Pair { display: name.to_string(), replacement: name.to_string() }
Pair(name) == [display |-> name, replacement |-> name]

\* The matches one source contributes: its names that start with the prefix,
\* in the order of the source.
RECURSIVE Matching(_, _)
Matching(names, prefix) ==
  IF names = <<>> THEN <<>>
  ELSE (IF StartsWith(Head(names), prefix) THEN <<Pair(Head(names))>> ELSE <<>>)
       \o Matching(Tail(names), prefix)

\* for path in paths.split(':'): the matches of every directory that
\* read_dir opens, the others skipped.
RECURSIVE FromDirs(_, _, _)
FromDirs(ds, dir, prefix) ==
  IF ds = <<>> THEN <<>>
  ELSE (IF ReadDir(dir, Head(ds)) # <<>>
          THEN Matching(ReadDir(dir, Head(ds))[1], prefix) ELSE <<>>)
       \o FromDirs(Tail(ds), dir, prefix)

\* if let Ok(paths) = env::var("PATH")
FromPath(pv, dir, prefix) ==
  IF pv.set THEN FromDirs(SplitColon(pv.val), dir, prefix) ELSE <<>>

\* Candidates, were a name that was already found not added again.
RECURSIVE Distinct(_)
Distinct(s) ==
  IF s = <<>> THEN <<>>
  ELSE LET d == Distinct(SubSeq(s, 1, Len(s) - 1)) IN
       IF \E i \in 1..Len(d) : d[i] = s[Len(s)] THEN d ELSE Append(d, s[Len(s)])
Candidates_Distinct(prefix, pv, dir) ==
  Distinct(Matching(Cmds, prefix) \o FromPath(pv, dir, prefix)
           \o FromDirs(<< <<".">> >>, dir, prefix))

\* matches: the builtins, then the PATH directories, then the working
\* directory.
Candidates(prefix, pv, dir) ==
  Matching(Cmds, prefix) \o FromPath(pv, dir, prefix)
  \o FromDirs(<< <<".">> >>, dir, prefix)

\* let prefix = &line[..pos]
Prefix(line, pos) == SubSeq(line, 1, pos)

\* Ok((0, matches))
CompleteResult(line, pos, pv, dir) ==
  [ok |-> TRUE, start |-> 0, matches |-> Candidates(Prefix(line, pos), pv, dir)]

\* The lines the completer is asked about: '', 'e', 'en', 'env', 'E', 'l',
\* 'ls x', 'c', 'x', '~', 'a'.
CompLines ==
  {<<>>, <<"e">>, <<"e","n">>, <<"e","n","v">>, <<"E">>, <<"l">>,
   <<"l","s"," ","x">>, <<"c">>, <<"x">>, <<"~">>, <<"a">>}

\* ------------------------------------------------------------------ state
VARIABLES
  home,        \* the HOME variable of the process
  cwd,         \* the working directory of the process
  cfg,         \* Sh.cfg
  store,       \* the .sh_cfg file of every directory
  store0,      \* store as it was at startup
  pc,          \* "prompt", "handling", "waiting", "exited", "eof", "readerr", "overflow"
  stack,       \* active handle() calls, innermost first: the lines each has yet to dispatch
  child,       \* the child process being waited for, <<>> when there is none
  prompt,      \* the prompt last shown
  out,         \* what was printed since the last read
  spawned,     \* the Command::new(..).args(..).status() calls since the last read
  dispatched,  \* the handle() calls since the last read
  reads,       \* lines read so far
  saved,       \* calls of Sh::save so far
  exitCode,    \* the process's exit status, <<>> while it runs
  opened,      \* the paths given to set_current_dir and read_to_string since the last read
  pathVar,     \* the PATH variable of the process
  completion   \* the last call of Comp::complete and what it returned, <<>> before any

vars == <<home, cwd, cfg, store, store0, pc, stack, child, prompt, out,
          spawned, dispatched, reads, saved, exitCode, opened, pathVar,
          completion>>

Init ==
  /\ home \in Homes
  /\ cwd = Cwd0
  /\ \E c \in InitialContents :
       /\ store = [d \in Dirs |-> IF d = CfgDir(home, Cwd0) THEN c ELSE Absent]
       /\ cfg = LoadCfg(c)
  /\ store0 = store
  /\ pc = "prompt"
  /\ stack = <<>>
  /\ child = <<>>
  /\ prompt = [shown |-> FALSE, cwd |-> <<>>, ps |-> ""]
  /\ out = <<>>
  /\ spawned = <<>>
  /\ dispatched = <<>>
  /\ reads = 0
  /\ saved = 0
  /\ exitCode = <<>>
  /\ opened = <<>>
  /\ pathVar = Path0
  /\ completion = <<>>

\* ------------------------------------------------------- Sh::run (135-167)
\* The prompt built at the top of the loop from the working directory and
\* cfg.ps (user, host and time left out).
BuildPrompt == [shown |-> TRUE, cwd |-> cwd, ps |-> cfg.ps]

\* A handle() call returns when it has no line left to dispatch; `s` is the
\* stack once the returns that are due have happened.
RECURSIVE Unwind(_)
Unwind(s) ==
  IF s = <<>> THEN <<>>
  ELSE IF Head(s) = <<>> THEN Unwind(Tail(s)) ELSE s

\* Control after a dispatched line: on to the next line of the innermost
\* sourced file that has one, back to the prompt when there is none.
Resume(s) ==
  /\ stack' = Unwind(s)
  /\ pc' = IF Unwind(s) = <<>> THEN "prompt" ELSE "handling"

\* readline returned Ok(line): a blank line is skipped, any other is handled.
ReadLine(line) ==
  /\ pc = "prompt"
  /\ reads < MaxReads
  /\ reads' = reads + 1
  /\ prompt' = BuildPrompt
  /\ out' = <<>>
  /\ spawned' = <<>>
  /\ dispatched' = <<>>
  /\ opened' = <<>>
  /\ IF Trim(line) = <<>>
       THEN stack' = <<>> /\ pc' = "prompt"
       ELSE stack' = << <<line>> >> /\ pc' = "handling"
  /\ UNCHANGED <<pathVar, completion>>
  /\ UNCHANGED <<home, cwd, cfg, store, store0, child, saved, exitCode>>

\* ReadInterrupted, were an interrupted read taken for the end of input.
ReadInterrupted_Breaks ==
  /\ pc = "prompt"
  /\ prompt' = BuildPrompt
  /\ out' = <<Msg("Interrompido", <<>>, <<>>)>>
  /\ spawned' = <<>>
  /\ dispatched' = <<>>
  /\ opened' = <<>>
  /\ pc' = "eof"
  /\ exitCode' = <<0>>
  /\ UNCHANGED <<pathVar, completion>>
  /\ UNCHANGED <<home, cwd, cfg, store, store0, stack, child, reads, saved>>

\* readline returned Err(Interrupted): a notice, and the loop goes on.
ReadInterrupted ==
  /\ pc = "prompt"
  /\ prompt' = BuildPrompt
  /\ out' = <<Msg("Interrompido", <<>>, <<>>)>>
  /\ spawned' = <<>>
  /\ dispatched' = <<>>
  /\ opened' = <<>>
  /\ UNCHANGED <<pathVar, completion>>
  /\ UNCHANGED <<home, cwd, cfg, store, store0, pc, stack, child, reads, saved,
                 exitCode>>

\* ReadEof, were the configuration saved when the loop breaks.
ReadEof_Saves ==
  /\ pc = "prompt"
  /\ prompt' = BuildPrompt
  /\ out' = <<Msg("Saindo", <<>>, <<>>)>>
  /\ spawned' = <<>>
  /\ dispatched' = <<>>
  /\ opened' = <<>>
  /\ pc' = "eof"
  /\ exitCode' = <<0>>
  /\ store' = SavedStore(store, home, cwd, cfg)
  /\ saved' = saved + 1
  /\ UNCHANGED <<pathVar, completion>>
  /\ UNCHANGED <<home, cwd, cfg, store0, stack, child, reads>>

\* readline returned Err(Eof): a notice, the loop breaks and main returns.
ReadEof ==
  /\ pc = "prompt"
  /\ prompt' = BuildPrompt
  /\ out' = <<Msg("Saindo", <<>>, <<>>)>>
  /\ spawned' = <<>>
  /\ dispatched' = <<>>
  /\ opened' = <<>>
  /\ pc' = "eof"
  /\ exitCode' = <<0>>
  /\ UNCHANGED <<pathVar, completion>>
  /\ UNCHANGED <<home, cwd, cfg, store, store0, stack, child, reads, saved>>

\* ReadError, were the configuration saved when the loop breaks.
ReadError_Saves ==
  /\ pc = "prompt"
  /\ prompt' = BuildPrompt
  /\ out' = <<Msg("ErroLeitura", <<>>, <<>>)>>
  /\ spawned' = <<>>
  /\ dispatched' = <<>>
  /\ opened' = <<>>
  /\ pc' = "readerr"
  /\ exitCode' = <<0>>
  /\ store' = SavedStore(store, home, cwd, cfg)
  /\ saved' = saved + 1
  /\ UNCHANGED <<pathVar, completion>>
  /\ UNCHANGED <<home, cwd, cfg, store0, stack, child, reads>>

\* readline returned any other error: it is printed, the loop breaks.
ReadError ==
  /\ pc = "prompt"
  /\ prompt' = BuildPrompt
  /\ out' = <<Msg("ErroLeitura", <<>>, <<>>)>>
  /\ spawned' = <<>>
  /\ dispatched' = <<>>
  /\ opened' = <<>>
  /\ pc' = "readerr"
  /\ exitCode' = <<0>>
  /\ UNCHANGED <<pathVar, completion>>
  /\ UNCHANGED <<home, cwd, cfg, store, store0, stack, child, reads, saved>>

\* ---------------------------------------------------- Sh::handle (178-231)
\* The line the innermost handle() call dispatches next, its tokens, and the
\* stack once that line is taken.
Cur   == Head(Head(stack))
Parts == SplitWhitespace(Trim(Cur))
Rest  == <<Tail(Head(stack))>> \o Tail(stack)

\* Cmd, were the alias table consulted before the builtins are matched.
Cmd_Resolved == Resolve(cfg.al, Parts[1])

\* if let Some(cmd) = parts.next(): the command word the match is made on.
Cmd == Parts[1]

Handling == pc = "handling" /\ child = <<>>

Logged == dispatched' = Append(dispatched, [line |-> Cur, depth |-> Len(stack)])

\* No token (a blank line of a sourced file): nothing happens.
HandleBlank ==
  /\ Handling
  /\ Parts = <<>>
  /\ Logged
  /\ Resume(Rest)
  /\ UNCHANGED <<opened, pathVar, completion>>
  /\ UNCHANGED <<home, cwd, cfg, store, store0, child, prompt, out, spawned,
                 reads, saved, exitCode>>

\* HandleExit, were an `exit` in a sourced file the end of that file only.
HandleExit_EndsFile ==
  /\ Handling
  /\ Parts # <<>> /\ Cmd = W_exit
  /\ Logged
  /\ IF Len(stack) > 1
       THEN /\ Resume(Tail(stack))
            /\ UNCHANGED <<saved, store, out, exitCode>>
       ELSE /\ saved' = saved + 1
            /\ \E written \in BOOLEAN :
                 IF written
                   THEN /\ store' = SavedStore(store, home, cwd, cfg)
                        /\ out' = Append(out, Msg("Tchau", <<>>, <<>>))
                   ELSE /\ store' = store
                        /\ out' = out \o <<Msg("ErroAoSalvar", <<>>, <<>>),
                                           Msg("Tchau", <<>>, <<>>)>>
            /\ pc' = "exited"
            /\ exitCode' = <<0>>
            /\ stack' = Rest
  /\ UNCHANGED <<opened, pathVar, completion>>
  /\ UNCHANGED <<home, cwd, cfg, store0, child, prompt, spawned, reads>>

\* Sh::save, then "Tchau!" and std::process::exit(0). The write goes to
\* cfg_path; when it fails the error is printed and the file is left as it was.
HandleExit ==
  /\ Handling
  /\ Parts # <<>> /\ Cmd = W_exit
  /\ Logged
  /\ saved' = saved + 1
  /\ \E written \in BOOLEAN :
       IF written
         THEN /\ store' = SavedStore(store, home, cwd, cfg)
              /\ out' = Append(out, Msg("Tchau", <<>>, <<>>))
         ELSE /\ store' = store
              /\ out' = out \o <<Msg("ErroAoSalvar", <<>>, <<>>),
                                 Msg("Tchau", <<>>, <<>>)>>
  /\ pc' = "exited"
  /\ exitCode' = <<0>>
  /\ stack' = Rest
  /\ UNCHANGED <<opened, pathVar, completion>>
  /\ UNCHANGED <<home, cwd, cfg, store0, child, prompt, spawned, reads>>

\* AliasSpec, were `alias name command` taken as a definition too.
AliasSpec_Lenient(args) ==
  IF SplitOnceEq(JoinSpace(args)) = <<>> /\ args # <<>>
    THEN <<args[1], JoinSpace(Tail(args))>>
    ELSE SplitOnceEq(JoinSpace(args))

\* The key and value `alias` stores for the tokens after the command word:
\* <<>> when their re-joined text holds no "=".
AliasSpec(args) == SplitOnceEq(JoinSpace(args))

HandleAlias ==
  /\ Handling
  /\ Parts # <<>> /\ Cmd = W_alias
  /\ Logged
  /\ LET kv == AliasSpec(Tail(Parts)) IN
       IF kv # <<>>
         THEN /\ cfg' = [cfg EXCEPT !.al = Insert(cfg.al, kv[1], kv[2])]
              /\ out' = Append(out, Msg("AliasAdicionado", kv[1], kv[2]))
         ELSE /\ cfg' = cfg
              /\ out' = Append(out, Msg("UsoAlias", <<>>, <<>>))
  /\ Resume(Rest)
  /\ UNCHANGED <<opened, pathVar, completion>>
  /\ UNCHANGED <<home, cwd, store, store0, child, prompt, spawned, reads, saved,
                 exitCode>>

HandleEnv ==
  /\ Handling
  /\ Parts # <<>> /\ Cmd = W_env
  /\ Logged
  /\ out' = Append(out, Msg("Env", <<>>, <<>>))
  /\ Resume(Rest)
  /\ UNCHANGED <<opened, pathVar, completion>>
  /\ UNCHANGED <<home, cwd, cfg, store, store0, child, prompt, spawned, reads,
                 saved, exitCode>>

\* NextArg, were a missing argument taken to be the home directory.
NextArg_Home(parts) == IF Len(parts) >= 2 THEN <<parts[2]>> ELSE << <<"~">> >>

\* parts.next() after the command word: <<>> for None, <<token>> for Some.
NextArg(parts) == IF Len(parts) >= 2 THEN <<parts[2]>> ELSE <<>>

\* NewCwd, were the working directory recorded before the change is attempted.
NewCwd_Blind(dir, target) == target

\* env::set_current_dir(target): the working directory afterwards. The call
\* succeeds on a directory of the file system and changes nothing otherwise.
NewCwd(dir, target) == IF target \in Dirs THEN target ELSE dir

HandleCd ==
  /\ Handling
  /\ Parts # <<>> /\ Cmd = W_cd
  /\ Logged
  /\ IF NextArg(Parts) # <<>>
       THEN LET dir      == NextArg(Parts)[1]
                expanded == ExpandPath(home, dir)
                target   == AbsPath(cwd, expanded) IN
            /\ opened' = Append(opened, expanded)
            /\ cwd' = NewCwd(cwd, target)
            /\ out' = IF target \in Dirs THEN out
                      ELSE Append(out, Msg("ErroCd", dir, <<>>))
       ELSE /\ cwd' = cwd
            /\ out' = Append(out, Msg("UsoCd", <<>>, <<>>))
            /\ opened' = opened
  /\ Resume(Rest)
  /\ UNCHANGED <<pathVar, completion>>
  /\ UNCHANGED <<home, cfg, store, store0, child, prompt, spawned, reads, saved,
                 exitCode>>

\* Sourced, were reading stopped at the first empty line.
RECURSIVE UntilEmpty(_)
UntilEmpty(ls) ==
  IF ls = <<>> \/ Head(ls) = <<>> THEN <<>> ELSE <<Head(ls)>> \o UntilEmpty(Tail(ls))
Sourced_UntilEmpty(content) == UntilEmpty(Lines(content))

\* for line in content.lines(): the lines the loop hands to handle, in order.
Sourced(content) == Lines(content)

\* HandleSource, were a file sourced from inside two sourced files refused.
HandleSource_DepthGuard ==
  /\ Handling
  /\ Parts # <<>> /\ Cmd = W_source
  /\ Logged
  /\ IF NextArg(Parts) # <<>>
       THEN LET file     == NextArg(Parts)[1]
                expanded == ExpandPath(home, file)
                path     == AbsPath(cwd, expanded) IN
            /\ opened' = Append(opened, expanded)
            /\ IF path \in DOMAIN FS /\ Len(stack) < 3
                 THEN Resume(<<Sourced(FS[path])>> \o Rest) /\ out' = out
                 ELSE /\ out' = Append(out, Msg("ErroAoCarregar", file, <<>>))
                      /\ Resume(Rest)
       ELSE /\ out' = Append(out, Msg("UsoSource", <<>>, <<>>))
            /\ Resume(Rest)
            /\ opened' = opened
  /\ UNCHANGED <<pathVar, completion>>
  /\ UNCHANGED <<home, cwd, cfg, store, store0, child, prompt, spawned, reads,
                 saved, exitCode>>

\* A readable file: one handle() call per line, in order. The recursion has
\* no bound of its own; the process dies when the call stack is exhausted.
HandleSource ==
  /\ Handling
  /\ Parts # <<>> /\ Cmd = W_source
  /\ Logged
  /\ IF NextArg(Parts) # <<>>
       THEN LET file     == NextArg(Parts)[1]
                expanded == ExpandPath(home, file)
                path     == AbsPath(cwd, expanded) IN
            /\ opened' = Append(opened, expanded)
            /\ IF path \in DOMAIN FS
                 THEN IF Len(stack) < MaxDepth
                        THEN /\ Resume(<<Sourced(FS[path])>> \o Rest)
                             /\ UNCHANGED <<out, exitCode>>
                        ELSE /\ pc' = "overflow"
                             /\ exitCode' = <<134>>
                             /\ stack' = Rest
                             /\ out' = out
                 ELSE /\ out' = Append(out, Msg("ErroAoCarregar", file, <<>>))
                      /\ Resume(Rest)
                      /\ UNCHANGED exitCode
       ELSE /\ out' = Append(out, Msg("UsoSource", <<>>, <<>>))
            /\ Resume(Rest)
            /\ UNCHANGED <<exitCode, opened>>
  /\ UNCHANGED <<pathVar, completion>>
  /\ UNCHANGED <<home, cwd, cfg, store, store0, child, prompt, spawned, reads,
                 saved>>

\* Invocation, were the stored value expanded into words as a shell would.
Invocation_Words(al, parts) ==
  LET w == SplitWhitespace(Resolve(al, parts[1])) IN
  [prog |-> IF w = <<>> THEN <<>> ELSE w[1],
   args |-> (IF w = <<>> THEN <<>> ELSE Tail(w)) \o Tail(parts)]

\* The program and the arguments of the external invocation made for the
\* tokens of a line whose command word is no builtin.
Invocation(al, parts) == [prog |-> Resolve(al, parts[1]), args |-> Tail(parts)]

\* HandleExternal, were the child started and not waited for.
HandleExternal_Background ==
  /\ Handling
  /\ Parts # <<>> /\ Cmd \notin Builtins
  /\ Logged
  /\ spawned' = Append(spawned, Invocation(cfg.al, Parts))
  /\ \E started \in BOOLEAN :
       IF started
         THEN /\ child' = <<Invocation(cfg.al, Parts)>>
              /\ out' = out
              /\ Resume(Rest)
         ELSE /\ child' = <<>>
              /\ out' = Append(out, Msg("ErroAoExecutar", <<>>, <<>>))
              /\ Resume(Rest)
  /\ UNCHANGED <<opened, pathVar, completion>>
  /\ UNCHANGED <<home, cwd, cfg, store, store0, prompt, reads, saved, exitCode>>

\* Sh::exec, up to the spawn: on failure the error is printed and the line is
\* done, on success the shell waits for the child.
HandleExternal ==
  /\ Handling
  /\ Parts # <<>> /\ Cmd \notin Builtins
  /\ Logged
  /\ spawned' = Append(spawned, Invocation(cfg.al, Parts))
  /\ \E started \in BOOLEAN :
       IF started
         THEN /\ child' = <<Invocation(cfg.al, Parts)>>
              /\ pc' = "waiting"
              /\ stack' = Rest
              /\ out' = out
         ELSE /\ child' = <<>>
              /\ out' = Append(out, Msg("ErroAoExecutar", <<>>, <<>>))
              /\ Resume(Rest)
  /\ UNCHANGED <<opened, pathVar, completion>>
  /\ UNCHANGED <<home, cwd, cfg, store, store0, prompt, reads, saved, exitCode>>

\* Sh::exec, the child ended: a status that is not success is printed.
ChildExit ==
  /\ pc = "waiting"
  /\ child # <<>>
  /\ child' = <<>>
  /\ \E success \in BOOLEAN :
       out' = IF success THEN out ELSE Append(out, Msg("Falhou", <<>>, <<>>))
  /\ Resume(stack)
  /\ UNCHANGED <<opened, pathVar, completion>>
  /\ UNCHANGED <<home, cwd, cfg, store, store0, prompt, spawned, dispatched,
                 reads, saved, exitCode>>

Next ==
  \/ \E line \in Inputs : ReadLine(line)
  \/ ReadInterrupted
  \/ ReadEof
  \/ ReadError
  \/ HandleBlank
  \/ HandleExit
  \/ HandleAlias
  \/ HandleEnv
  \/ HandleCd
  \/ HandleSource
  \/ HandleExternal
  \/ ChildExit

Spec == Init /\ [][Next]_vars

\* ----------------------------------------- sessions about alias precedence
\* The same shell, read lines drawn from those that define aliases named
\* after builtins (/p) and aliases of aliases and of builtin names (/q).
AliasInputs ==
  {L_sourceP, L_sourceQ, L_cdH, L_env, L_alias, L_sourceNo, L_exit, L_a, L_blank}

NextAlias ==
  \/ \E line \in AliasInputs : ReadLine(line)
  \/ ReadInterrupted
  \/ ReadEof
  \/ ReadError
  \/ HandleBlank
  \/ HandleExit
  \/ HandleAlias
  \/ HandleEnv
  \/ HandleCd
  \/ HandleSource
  \/ HandleExternal
  \/ ChildExit

SpecAlias == Init /\ [][NextAlias]_vars

\* ------------------------------------------- the completer, called by readline
\* readline calls Comp::complete with the line typed so far and the cursor;
\* the call changes nothing of the shell.
Complete(line, pos) ==
  /\ pc = "prompt"
  /\ completion' = [line |-> line, pos |-> pos,
                    result |-> CompleteResult(line, pos, pathVar, cwd)]
  /\ UNCHANGED <<home, cwd, cfg, store, store0, pc, stack, child, prompt, out,
                 spawned, dispatched, reads, saved, exitCode, opened, pathVar>>

\* A shell waiting at its first prompt, started in any directory under any
\* PATH, with no configuration file.
InitComp ==
  /\ home \in Homes
  /\ cwd \in Dirs
  /\ pathVar \in Paths
  /\ store = [d \in Dirs |-> Absent]
  /\ cfg = LoadCfg(Absent)
  /\ store0 = store
  /\ pc = "prompt"
  /\ stack = <<>>
  /\ child = <<>>
  /\ prompt = [shown |-> FALSE, cwd |-> <<>>, ps |-> ""]
  /\ out = <<>>
  /\ spawned = <<>>
  /\ dispatched = <<>>
  /\ reads = 0
  /\ saved = 0
  /\ exitCode = <<>>
  /\ opened = <<>>
  /\ completion = <<>>

NextComp == \E line \in CompLines : \E pos \in 0..Len(line) : Complete(line, pos)

SpecComp == InitComp /\ [][NextComp]_vars

\* ------------------------------------------------------------- properties
Last(s) == s[Len(s)]

\* A step that dispatches one line, the line it dispatches and its tokens.
Dispatch     == Len(dispatched') = Len(dispatched) + 1
DispatchLine == dispatched'[Len(dispatched')].line
DispatchToks == SplitWhitespace(DispatchLine)

\* The last dispatched line and its tokens, in a state where there is one.
LastLine == Last(dispatched).line
LastToks == SplitWhitespace(LastLine)

T_gs        == <<"g","s">>
T_git       == <<"g","i","t">>
T_status    == <<"s","t","a","t","u","s">>
T_gitStatus == <<"g","i","t"," ","s","t","a","t","u","s">>

\* An `alias key=value` line in its plain form: one space after `alias`, a key
\* free of whitespace and "=", and a single-spaced value that neither starts
\* nor ends with whitespace. Its key and its value, read off the text.
PlainAliasLine(t) ==
  LET i == FindChar(t, "=") IN
  /\ Len(t) >= 9
  /\ SubSeq(t, 1, 6) = W_alias \o <<" ">>
  /\ i > 7 /\ i < Len(t)
  /\ WordLen(SubSeq(t, 7, Len(t))) >= i - 6
  /\ t[i + 1] \notin WS /\ t[Len(t)] \notin WS
  /\ JoinSpace(SplitWhitespace(SubSeq(t, i + 1, Len(t)))) = SubSeq(t, i + 1, Len(t))
PlainKey(t)   == SubSeq(t, 7, FindChar(t, "=") - 1)
PlainValue(t) == SubSeq(t, FindChar(t, "=") + 1, Len(t))

\* C1: a line `alias key=value` stores value under key; a line whose command
\* word is no builtin makes exactly one external invocation, of the whole value
\* stored under the command word (of the command word itself when it is no
\* key), with exactly the line's remaining tokens, in order, as arguments.
C1_AliasReplacesCommandWordOnly ==
  [][Dispatch =>
       /\ PlainAliasLine(DispatchLine) =>
            /\ PlainKey(DispatchLine) \in DOMAIN cfg'.al
            /\ cfg'.al[PlainKey(DispatchLine)] = PlainValue(DispatchLine)
       /\ (DispatchToks # <<>> /\ DispatchToks[1] \notin Builtins) =>
            /\ Len(spawned') = Len(spawned) + 1
            /\ SubSeq(spawned', 1, Len(spawned)) = spawned
            /\ Last(spawned').prog =
                 (IF DispatchToks[1] \in DOMAIN cfg.al
                    THEN cfg.al[DispatchToks[1]] ELSE DispatchToks[1])
            /\ Last(spawned').args = Tail(DispatchToks)
  ]_vars

\* C1 witness: `gs a b` was dispatched with gs defined as `git status`, and
\* the one invocation made is of `git status` with the arguments a, b.
C1_Witness ==
  /\ dispatched # <<>> /\ LastLine = L_gsAB
  /\ T_gs \in DOMAIN cfg.al /\ cfg.al[T_gs] = T_gitStatus
  /\ spawned = <<[prog |-> T_gitStatus, args |-> << <<"a">>, <<"b">> >>]>>

\* C2 as stated: with gs defined as `git status`, a line `gs a1 ... an`
\* invokes the program `git` with the arguments status, a1, ..., an.
C2_AsStated ==
  (/\ dispatched # <<>> /\ spawned # <<>>
   /\ LastToks # <<>> /\ LastToks[1] = T_gs
   /\ T_gs \in DOMAIN cfg.al /\ cfg.al[T_gs] = T_gitStatus)
  => Last(spawned) = [prog |-> T_git, args |-> <<T_status>> \o Tail(LastToks)]

\* C2 amended: the line `alias gs=git status` stores `git status` under gs,
\* and with that definition in force a line `gs a1 ... an` invokes the program
\* named `git status` (the whole value, space included) with the arguments
\* a1, ..., an alone.
C2_WholeValueIsProgram ==
  [][Dispatch =>
       /\ DispatchLine = L_aliasGs =>
            T_gs \in DOMAIN cfg'.al /\ cfg'.al[T_gs] = T_gitStatus
       /\ (/\ DispatchToks # <<>> /\ DispatchToks[1] = T_gs
           /\ T_gs \in DOMAIN cfg.al /\ cfg.al[T_gs] = T_gitStatus) =>
            /\ Len(spawned') = Len(spawned) + 1
            /\ Last(spawned') = [prog |-> T_gitStatus, args |-> Tail(DispatchToks)]
  ]_vars

\* C2 witness: `gs` alone was dispatched under that definition and `git status`
\* was invoked with no argument.
C2_Witness ==
  /\ dispatched # <<>> /\ LastLine = L_gs
  /\ T_gs \in DOMAIN cfg.al /\ cfg.al[T_gs] = T_gitStatus
  /\ spawned = <<[prog |-> T_gitStatus, args |-> <<>>]>>

\* The aliases the shell confirmed since the last read, latest per key, are
\* those of table al.
ConfirmedIn(log, al) ==
  \A i \in 1..Len(log) :
    (log[i].msg = "AliasAdicionado"
     /\ \A j \in (i + 1)..Len(log) :
          ~(log[j].msg = "AliasAdicionado" /\ log[j].a = log[i].a))
    => (log[i].a \in DOMAIN al /\ al[log[i].a] = log[i].b)

\* The prompt suffix loaded at startup.
StartupPs == LoadCfg(store0[CfgDir(home, Cwd0)]).ps

C4_NoWriteWithoutExit ==
  pc # "exited" => (store = store0 /\ saved = 0)

\* C4 witness: the session ended on a read error with an alias in memory that
\* the config file does not hold.
C4_Witness ==
  /\ pc = "readerr"
  /\ T_gs \in DOMAIN cfg.al /\ cfg.al[T_gs] = T_gitStatus
  /\ store = store0 /\ store[CfgDir(home, cwd)] = Absent

\* C5 as stated: when the session ends on end-of-input the in-memory
\* configuration has been persisted, once.
C5_AsStated ==
  pc = "eof" => (saved = 1 /\ store[CfgDir(home, cwd)] = Toml(cfg))

\* C5 amended: when the session ends on end-of-input, save was never called
\* and the file at cfg_path is as it was at startup, so aliases defined during
\* the session are not kept.
C5_EofDoesNotPersist ==
  pc = "eof" =>
    /\ saved = 0
    /\ store[CfgDir(home, cwd)] = store0[CfgDir(home, cwd)]
    /\ exitCode = <<0>>

\* C5 witness: end-of-input ended a session that had defined k, which the
\* config file does not hold.
C5_Witness ==
  /\ pc = "eof"
  /\ <<"k">> \in DOMAIN cfg.al
  /\ <<"k">> \notin DOMAIN store[CfgDir(home, cwd)].al

\* The tokens of entry i of the dispatch log.
ToksAt(i) == SplitWhitespace(dispatched[i].line)

\* Entry i dispatches `source p`, p the absolute path of a readable file.
SourceAt(i) ==
  /\ Len(ToksAt(i)) >= 2 /\ ToksAt(i)[1] = W_source
  /\ ToksAt(i)[2] \in DOMAIN FS

\* The first entry after i that is not nested in the call of entry i, one past
\* the log when there is none.
EndOf(i) ==
  CHOOSE j \in (i + 1)..(Len(dispatched) + 1) :
    /\ j = Len(dispatched) + 1 \/ dispatched[j].depth <= dispatched[i].depth
    /\ \A n \in (i + 1)..(j - 1) : dispatched[n].depth > dispatched[i].depth

\* The lines dispatched directly by the call of entry i, in order.
KidsOf(i) ==
  LET sel == SelectSeq(SubSeq(dispatched, i + 1, EndOf(i) - 1),
                       LAMBDA e : e.depth = dispatched[i].depth + 1)
  IN [n \in 1..Len(sel) |-> sel[n].line]

IsPrefix(s, t) == Len(s) <= Len(t) /\ s = SubSeq(t, 1, Len(s))

\* Entry i defines an alias; its key and value.
DefAt(i) ==
  /\ ToksAt(i) # <<>> /\ ToksAt(i)[1] = W_alias
  /\ FindChar(JoinSpace(Tail(ToksAt(i))), "=") > 0
KeyAt(i) == SplitOnceEq(JoinSpace(Tail(ToksAt(i))))[1]
ValAt(i) == SplitOnceEq(JoinSpace(Tail(ToksAt(i))))[2]

\* Entry i invokes an external program; the number of such entries up to i.
ExtAt(i)    == ToksAt(i) # <<>> /\ ToksAt(i)[1] \notin Builtins
ExtCount(i) == Cardinality({n \in 1..i : ExtAt(n)})

\* Entry i changes the working directory to an absolute directory.
CdAt(i) == Len(ToksAt(i)) >= 2 /\ ToksAt(i)[1] = W_cd
Later(S) == CHOOSE i \in S : \A n \in S : n <= i

\* The lines of a sourced file are dispatched one by one in file order, each
\* exactly once: those dispatched so far are a prefix of the file's lines, all
\* of them once the call has returned.
SourcedInOrder ==
  \A i \in 1..Len(dispatched) : SourceAt(i) =>
    /\ IsPrefix(KidsOf(i), Lines(FS[ToksAt(i)[2]]))
    /\ (EndOf(i) <= Len(dispatched) \/ pc = "prompt")
         => KidsOf(i) = Lines(FS[ToksAt(i)[2]])

\* Each line runs against the state the lines before it left: an invocation
\* uses the latest definition made before it, and the alias table and the
\* working directory are those of the latest definitions and directory change.
EffectsInOrder ==
  /\ \A j \in 1..Len(dispatched) :
       LET defs == {i \in 1..(j - 1) : DefAt(i) /\ KeyAt(i) = ToksAt(j)[1]} IN
       (ExtAt(j) /\ defs # {}) =>
         /\ ExtCount(j) <= Len(spawned)
         /\ spawned[ExtCount(j)].prog = ValAt(Later(defs))
         /\ spawned[ExtCount(j)].args = Tail(ToksAt(j))
  /\ \A i \in 1..Len(dispatched) :
       (DefAt(i) /\ \A n \in (i + 1)..Len(dispatched) :
                      ~(DefAt(n) /\ KeyAt(n) = KeyAt(i)))
         => (KeyAt(i) \in DOMAIN cfg.al /\ cfg.al[KeyAt(i)] = ValAt(i))
  /\ LET cds == {i \in 1..Len(dispatched) : CdAt(i)} IN
       (cds # {} /\ ToksAt(Later(cds))[2] \in Dirs) => cwd = ToksAt(Later(cds))[2]

C7_AsStated ==
  (dispatched # <<>> /\ DefAt(Len(dispatched))) =>
     /\ KeyAt(Len(dispatched)) \in DOMAIN cfg.al
     /\ cfg.al[KeyAt(Len(dispatched))] = Trim(ValAt(Len(dispatched)))

\* C8: an `alias` line whose argument text holds no "=" leaves the alias
\* table as it is and prints the usage hint, and the alias table changes only
\* in the dispatch of an `alias` line that holds "=".
C8_MalformedAliasChangesNothing ==
  [][/\ (/\ Dispatch
         /\ DispatchToks # <<>> /\ DispatchToks[1] = W_alias
         /\ FindChar(JoinSpace(Tail(DispatchToks)), "=") = 0) =>
          /\ cfg' = cfg
          /\ out' = Append(out, Msg("UsoAlias", <<>>, <<>>))
     /\ cfg'.al # cfg.al =>
          /\ Dispatch
          /\ DispatchToks # <<>> /\ DispatchToks[1] = W_alias
          /\ FindChar(JoinSpace(Tail(DispatchToks)), "=") > 0
  ]_vars

\* C8 witness: `alias gs ls` was dispatched: the usage hint was printed and gs
\* keeps the value it had.
C8_Witness ==
  /\ dispatched # <<>> /\ LastLine = L_aliasNoEq
  /\ out = <<Msg("UsoAlias", <<>>, <<>>)>>
  /\ T_gs \in DOMAIN cfg.al /\ cfg.al[T_gs] = T_gitStatus

\* C9: a definition sets its key to the new value and leaves every other key
\* as it was, so defining a key again with the value it has changes nothing;
\* a command word is resolved only when it equals a key, and is invoked under
\* its own name when it is only a prefix or an extension of one.
C9_LatestDefinitionExactLookup ==
  [][Dispatch =>
       /\ (out' # out /\ Last(out').msg = "AliasAdicionado") =>
            LET k == Last(out').a
                v == Last(out').b IN
            /\ DOMAIN cfg'.al = DOMAIN cfg.al \cup {k}
            /\ cfg'.al[k] = v
            /\ \A x \in DOMAIN cfg.al \ {k} : cfg'.al[x] = cfg.al[x]
            /\ (k \in DOMAIN cfg.al /\ cfg.al[k] = v) => cfg' = cfg
       /\ (DispatchToks # <<>> /\ DispatchToks[1] \notin Builtins) =>
            /\ DispatchToks[1] \in DOMAIN cfg.al =>
                 Last(spawned').prog = cfg.al[DispatchToks[1]]
            /\ DispatchToks[1] \notin DOMAIN cfg.al =>
                 Last(spawned').prog = DispatchToks[1]
  ]_vars

\* C9 witness: `source /g` has returned: k was defined as v, then as w, after
\* which `kk z` invoked kk and the last line `k z` invoked w.
C9_Witness ==
  /\ pc = "prompt"
  /\ dispatched # <<>> /\ dispatched[1].line = L_sourceG
  /\ \E i, j \in 1..Len(out) :
       /\ i < j
       /\ out[i] = Msg("AliasAdicionado", <<"k">>, <<"v">>)
       /\ out[j] = Msg("AliasAdicionado", <<"k">>, <<"w">>)
  /\ cfg.al[<<"k">>] = <<"w">>
  /\ Len(spawned) = 4
  /\ spawned[3] = [prog |-> <<"k","k">>, args |-> << <<"z">> >>]
  /\ spawned[4] = [prog |-> <<"w">>, args |-> << <<"z">> >>]

\* C10: `cd` with no argument leaves the working directory and the alias
\* table as they are and prints the usage hint.
C10_CdWithoutArgument ==
  [][(Dispatch /\ DispatchToks = <<W_cd>>) =>
       /\ cwd' = cwd
       /\ cfg' = cfg
       /\ out' = Append(out, Msg("UsoCd", <<>>, <<>>))
  ]_vars

\* C10 witness: `cd` was dispatched with HOME set to another directory than
\* the working directory, which is still the one the shell started in.
C10_Witness ==
  /\ dispatched # <<>> /\ LastLine = L_cd
  /\ home.set /\ home.val # cwd /\ cwd = Cwd0
  /\ out = <<Msg("UsoCd", <<>>, <<>>)>>

\* A step that dispatches a line with command word w and at least one argument.
DispatchWithArg(w) ==
  Dispatch /\ Len(DispatchToks) >= 2 /\ DispatchToks[1] = w

\* C11: a `cd <path>` whose target is no directory that can be entered prints
\* an error and leaves the working directory as it was; every prompt shows
\* the working directory in force when it is built, so the prompt that
\* follows a failed interactive `cd` shows the directory of before.
C11_FailedCdKeepsDirectory ==
  [][/\ (/\ DispatchWithArg(W_cd)
         /\ AbsPath(cwd, ExpandPath(home, DispatchToks[2])) \notin Dirs)
        => /\ cwd' = cwd
           /\ out' = Append(out, Msg("ErroCd", DispatchToks[2], <<>>))
           /\ (Len(stack) = 1 /\ Len(Head(stack)) = 1 => pc' = "prompt")
     /\ pc = "prompt" => (prompt'.shown /\ prompt'.cwd = cwd)
  ]_vars

\* C11 witness: after a successful `cd /h`, `cd /no` failed: the error is
\* printed, the shell is back at the prompt and still in /h.
C11_Witness ==
  /\ dispatched # <<>> /\ LastLine = L_cdNo
  /\ out = <<Msg("ErroCd", <<"/","n","o">>, <<>>)>>
  /\ pc = "prompt"
  /\ cwd = <<"/","h">> /\ cwd # Cwd0 /\ prompt.cwd = cwd

\* The expansion C12 states: the home directory in place of a leading `~`
\* when HOME is set, the path itself otherwise.
LeadingTildeExpanded(h, path) ==
  IF path # <<>> /\ path[1] = "~" /\ h.set THEN h.val \o Tail(path) ELSE path

\* C12: the path `cd` and `source` hand to the operating system is their
\* argument with a leading `~` replaced by the value of HOME when HOME is
\* set (later `~` kept), and the argument itself when it does not begin with
\* `~` or HOME is unset; `cd ~` with HOME set to a directory enters it.
C12_ExpandsLeadingTildeOnly ==
  [][/\ (DispatchWithArg(W_cd) \/ DispatchWithArg(W_source))
        => opened' = Append(opened, LeadingTildeExpanded(home, DispatchToks[2]))
     /\ (Dispatch /\ DispatchToks = <<W_cd, <<"~">> >> /\ home.set
          /\ home.val \in Dirs)
        => cwd' = home.val
  ]_vars

\* C12 witness: with HOME set to /h, `cd ~/~` entered /h/~, the second `~`
\* kept.
C12_Witness ==
  /\ dispatched # <<>> /\ LastLine = L_cdTildeTilde
  /\ home.set /\ home.val = <<"/","h">>
  /\ opened = << <<"/","h","/","~">> >>
  /\ cwd = <<"/","h","/","~">>

\* The steps C13 lists as failures: an interrupted read, and a dispatch or a
\* child's end that prints a usage hint or an error.
FailureMsgs ==
  {"UsoAlias", "UsoCd", "UsoSource", "ErroAoCarregar", "ErroCd",
   "ErroAoExecutar", "Falhou"}
InterruptedRead == pc = "prompt" /\ out' = <<Msg("Interrompido", <<>>, <<>>)>>
FailureReported ==
  /\ pc # "prompt"
  /\ Len(out') = Len(out) + 1
  /\ Last(out').msg \in FailureMsgs

C14_ExternalInvocationIsSynchronous ==
  [][/\ Len(child') <= 1
     /\ child # <<>>
        => /\ pc = "waiting"
           /\ child' = <<>>
           /\ reads' = reads
           /\ prompt' = prompt
           /\ dispatched' = dispatched
           /\ spawned' = spawned
           /\ stack' = Unwind(stack)
  ]_vars

\* C14 witness: inside /f the child of `k x` runs, `cd /h` and `k y` of the
\* file still to be dispatched.
C14_Witness ==
  /\ pc = "waiting"
  /\ child = <<[prog |-> <<"v">>, args |-> << <<"x">> >>]>>
  /\ Len(stack) = 2
  /\ Len(Head(stack)) = 2
  /\ Head(stack)[1] = L_cdH

\* C15: `source` detects no cycle and bounds no depth. Once /r, which sources
\* itself, is sourced from the prompt, every dispatch of its `source /r` line
\* is one level deeper than the one before, control never returns to the read
\* loop, and the nesting stops only when the call stack is exhausted.
C15_SelfSourcingNeverReturns ==
  (dispatched # <<>> /\ dispatched[1].line = L_sourceR)
    => /\ pc \in {"handling", "overflow"}
       /\ \A i \in 1..Len(dispatched) :
            /\ dispatched[i].depth = (i \div 2) + 1
            /\ dispatched[i].line = IF i % 2 = 1 THEN L_sourceR ELSE L_env
       /\ pc = "handling" => Len(stack) = ((Len(dispatched) + 1) \div 2) + 1
       /\ pc = "overflow" => Last(dispatched).depth = MaxDepth
       /\ out = [i \in 1..(Len(dispatched) \div 2) |-> Msg("Env", <<>>, <<>>)]

\* C15 witness: /r has re-entered itself down to the deepest level the call
\* stack allows, and the process has died there.
C15_Witness ==
  /\ pc = "overflow"
  /\ Len(dispatched) = 2 * MaxDepth - 1
  /\ dispatched[1] = [line |-> L_sourceR, depth |-> 1]
  /\ Last(dispatched) = [line |-> L_sourceR, depth |-> MaxDepth]

\* The prefix, the names and the sources of a call of the completer.
CompPrefix   == SubSeq(completion.line, 1, completion.pos)
CompNames    == [i \in 1..Len(completion.result.matches) |->
                   completion.result.matches[i].display]
Range(f)     == {f[i] : i \in DOMAIN f}

\* The directories named by a PATH value: its maximal pieces without a colon.
Components(v) ==
  {SubSeq(v, a, b) : <<a, b>> \in
     {ab \in (1..(Len(v) + 1)) \X (0..Len(v)) :
        /\ ab[1] <= ab[2] + 1
        /\ ab[1] = 1 \/ v[ab[1] - 1] = ":"
        /\ ab[2] = Len(v) \/ v[ab[2] + 1] = ":"
        /\ \A k \in ab[1]..ab[2] : v[k] # ":"}}

\* The entries of the directories that can be listed among ds, the working
\* directory being dir.
Listed(ds, dir) ==
  UNION {Range(ReadDir(dir, d)[1]) : d \in {x \in ds : ReadDir(dir, x) # <<>>}}

\* C16: a call of the completer succeeds, and its result holds a candidate
\* for a name exactly when the name starts with line[0..cursor], letter case
\* observed, and is a builtin of the list, an entry of a PATH directory that
\* can be listed or an entry of the working directory; directories that cannot
\* be listed add nothing, the result may be empty, and for the prefix `e` both
\* `env` and `exit` are candidates.
C16_CandidatesAreThePrefixedNames ==
  completion # <<>> =>
    LET found == Range(CompNames)
        names == Range(Cmds)
                 \cup (IF pathVar.set THEN Listed(Components(pathVar.val), cwd)
                       ELSE {})
                 \cup Listed({<<".">>}, cwd)
    IN /\ completion.result.ok
       /\ found = {n \in names : IsPrefix(CompPrefix, n)}
       /\ \A i \in 1..Len(CompNames) :
            completion.result.matches[i].replacement = CompNames[i]
       /\ CompPrefix = <<"e">> => {W_env, W_exit} \subseteq found

\* C16 witness: `en` was completed with the cursor after `e`, PATH holding a
\* directory that does not exist and the working directory not listable: the
\* candidates are exit and env of the builtins, env of /b and exit of /h,
\* and not Env of /h.
C16_Witness ==
  /\ completion # <<>>
  /\ completion.line = <<"e","n">> /\ completion.pos = 1
  /\ pathVar = Path0 /\ cwd = <<"/","h","/","~">>
  /\ CompNames = <<W_exit, W_env, W_env, W_exit>>

\* The names of a sequence that start with the prefix, in its order.
Prefixed(names, prefix) == SelectSeq(names, LAMBDA n : IsPrefix(prefix, n))

\* The entries of directory d in the order they are listed, none when the
\* directory cannot be listed.
ListingOf(d, dir) == IF ReadDir(dir, d) = <<>> THEN <<>> ELSE ReadDir(dir, d)[1]

RECURSIVE PrefixedOfAll(_, _, _)
PrefixedOfAll(ds, dir, prefix) ==
  IF ds = <<>> THEN <<>>
  ELSE Prefixed(ListingOf(Head(ds), dir), prefix)
       \o PrefixedOfAll(Tail(ds), dir, prefix)

\* How many times a name is in a sequence.
Occurrences(s, n) == Cardinality({i \in 1..Len(s) : s[i] = n})

\* C17: the completer returns position 0 and its candidates in the order
\* they are found, nothing removed: the matching builtins in list order, the
\* matching entries of each PATH directory in PATH order, the matching entries
\* of the working directory; a name found in k sources is there k times.
C17_DiscoveryOrderNoDedup ==
  completion # <<>> =>
    LET dirs == IF pathVar.set THEN SplitColon(pathVar.val) ELSE <<>>
        srcs == <<Cmds>> \o [i \in 1..Len(dirs) |-> ListingOf(dirs[i], cwd)]
                \o <<ListingOf(<<".">>, cwd)>>
    IN /\ completion.result.start = 0
       /\ CompNames = Prefixed(Cmds, CompPrefix)
                       \o PrefixedOfAll(dirs, cwd, CompPrefix)
                       \o Prefixed(ListingOf(<<".">>, cwd), CompPrefix)
       /\ \A n \in Range(CompNames) :
            Occurrences(CompNames, n) =
              Cardinality({i \in 1..Len(srcs) : n \in Range(srcs[i])})

\* C17 witness: `e` completed in /h with PATH = /h:/b:/h: exit is found as a
\* builtin, in /h twice through PATH and in the working directory, four
\* times in all; env as a builtin and in /b.
C17_Witness ==
  /\ completion # <<>>
  /\ completion.line = <<"e">> /\ completion.pos = 1
  /\ cwd = <<"/","h">>
  /\ pathVar.val = <<"/","h",":","/","b",":","/","h">>
  /\ CompNames = <<W_exit, W_env, W_exit, W_env, W_exit, W_exit>>
  /\ completion.result.start = 0

\* A step that dispatches a line with command word w.
DispatchOf(w) == Dispatch /\ DispatchToks # <<>> /\ DispatchToks[1] = w

\* C18: a line whose command word is exit, alias, env, cd or source runs the
\* builtin and starts no process, whatever the alias table holds under that
\* word; an alias named after a builtin is stored in the table and is part of
\* what save writes, but is never used.
C18_BuiltinsPrecedeAliases ==
  [][/\ (Dispatch /\ DispatchToks # <<>> /\ DispatchToks[1] \in Builtins)
        => /\ spawned' = spawned
           /\ child' = <<>>
           /\ pc' # "waiting"
     /\ DispatchOf(W_exit)
        => /\ pc' = "exited" /\ saved' = saved + 1
           /\ store' \in {store, SavedStore(store, home, cwd, cfg)}
           /\ Last(out') = Msg("Tchau", <<>>, <<>>)
     /\ DispatchOf(W_alias)
        => /\ Len(out') = Len(out) + 1
           /\ Last(out').msg \in {"AliasAdicionado", "UsoAlias"}
           /\ \A w \in Builtins :
                (Last(out') = Msg("AliasAdicionado", w, N_ls))
                  => (w \in DOMAIN cfg'.al /\ cfg'.al[w] = N_ls)
     /\ DispatchOf(W_env) => out' = Append(out, Msg("Env", <<>>, <<>>))
     /\ DispatchWithArg(W_cd)
        => cwd' = NewCwd(cwd, AbsPath(cwd, ExpandPath(home, DispatchToks[2])))
     /\ DispatchOf(W_source)
        => \/ Len(opened') = Len(opened) + 1
           \/ out' = Append(out, Msg("UsoSource", <<>>, <<>>))
  ]_vars

\* C18 witness: /p defined aliases under all five builtin names, and its
\* lines `cd /h`, `env` and `source /no` ran the builtins; `exit`, typed
\* next, ended the session and wrote the table, the five aliases in it, and
\* no process was ever started.
C18_Witness ==
  /\ pc = "exited" /\ dispatched = <<[line |-> L_exit, depth |-> 1]>>
  /\ Builtins \subseteq DOMAIN cfg.al
  /\ cwd = <<"/","h">>
  /\ spawned = <<>>
  /\ store[CfgDir(home, cwd)].kind = "toml"
  /\ Builtins \subseteq DOMAIN store[CfgDir(home, cwd)].al

\* C19: the command word is looked up in the alias table once and what is
\* found is the program, never looked up or interpreted again: with a -> b
\* and b -> c the line `a` starts b; an alias whose value is `cd` or `exit`
\* starts a program of that name, the working directory and the session
\* being left as they are.
C19_AliasResolvedOnce ==
  [][(Dispatch /\ DispatchToks # <<>> /\ DispatchToks[1] \notin Builtins)
       => LET w == DispatchToks[1] IN
          /\ Len(spawned') = Len(spawned) + 1
          /\ Last(spawned').prog = IF w \in DOMAIN cfg.al THEN cfg.al[w] ELSE w
          /\ Last(spawned').args = Tail(DispatchToks)
          /\ cwd' = cwd
          /\ cfg' = cfg
          /\ store' = store /\ saved' = saved
          /\ exitCode' = <<>>
          /\ pc' \in {"waiting", "handling", "prompt"}
  ]_vars

\* C19 witness: /q was sourced to its end: `a` started b although b is an
\* alias of c, `q /h` started a program cd and `e` a program exit; the shell
\* is at the prompt in the directory it started in.
C19_Witness ==
  /\ pc = "prompt" /\ exitCode = <<>>
  /\ dispatched # <<>> /\ dispatched[1].line = L_sourceQ
  /\ cfg.al[<<"a">>] = <<"b">> /\ cfg.al[<<"b">>] = <<"c">>
  /\ spawned = <<[prog |-> <<"b">>, args |-> <<>>],
                 [prog |-> W_cd, args |-> << <<"/","h">> >>],
                 [prog |-> W_exit, args |-> <<>>]>>
  /\ cwd = Cwd0

====
